---- MODULE Spec2Model ----
(***************************************************************************)
(* A model of ripple's NRTidalv2 waveform module                           *)
(* (src/src/ripple/waveforms/X_NRTidalv2.py).                              *)
(*                                                                         *)
(* The module is a pipeline of pure numerical functions.  Numbers are      *)
(* modelled as follows.                                                    *)
(*   - A value that the code obtains from its inputs by + - * / and        *)
(*     integer powers alone is kept exactly, as a rational (a complex      *)
(*     rational for strains) times a power of the constant gt.             *)
(*   - The long decimal literals of the fits are kept exactly as well, in  *)
(*     a multi-limb representation.                                        *)
(*   - The result of a transcendental operation (a fractional power, exp,  *)
(*     log, sqrt, cos, heaviside) on an argument where it has no exact     *)
(*     rational value is kept as the term that produces it.  The only      *)
(*     simplifications applied to terms are the ones floating point        *)
(*     arithmetic performs exactly: x*1 = x, x+0 = x, x-0 = x, 0*x = 0 and *)
(*     0/x = 0 for finite x, exp(0) = 1, cos(0) = 1, log(1) = 0, 0^p = 0,  *)
(*     and NaN propagation (0/0 = NaN, NaN op x = NaN).                    *)
(***************************************************************************)
EXTENDS Integers, Sequences, FiniteSets, TLC

----------------------------------------------------------------------------
(* Small exact rationals <<n, d>>, d > 0, in lowest terms.                 *)

Abs(x) == IF x < 0 THEN -x ELSE x

RECURSIVE Gcd(_, _)
Gcd(a, b) == IF b = 0 THEN a ELSE Gcd(b, a % b)

Q(n, d) ==
  LET g == Gcd(Abs(n), Abs(d))
      s == IF d < 0 THEN -1 ELSE 1
  IN  <<(s * n) \div g, (s * d) \div g>>

QInt(n) == <<n, 1>>

QNeg(a) == <<-a[1], a[2]>>

QAdd(a, b) ==
  LET g == Gcd(a[2], b[2])
  IN  Q(a[1] * (b[2] \div g) + b[1] * (a[2] \div g), (a[2] \div g) * b[2])

QSub(a, b) == QAdd(a, QNeg(b))

QMul(a, b) ==
  LET g1 == Gcd(Abs(a[1]), b[2])
      g2 == Gcd(Abs(b[1]), a[2])
  IN  <<(a[1] \div g1) * (b[1] \div g2), (a[2] \div g2) * (b[2] \div g1)>>

QInv(a) == IF a[1] < 0 THEN <<-a[2], -a[1]>> ELSE <<a[2], a[1]>>

QDiv(a, b) == QMul(a, QInv(b))

QLess(a, b) == a[1] * b[2] < b[1] * a[2]

RECURSIVE QPowNat(_, _)
QPowNat(a, n) == IF n = 0 THEN <<1, 1>> ELSE QMul(a, QPowNat(a, n - 1))

(* The integer square root of n, or -1 when n is not a perfect square.     *)
RECURSIVE SqrtFrom(_, _)
SqrtFrom(n, r) ==
  IF r * r = n THEN r ELSE IF r * r > n THEN -1 ELSE SqrtFrom(n, r + 1)

ISqrt(n) == SqrtFrom(n, 0)

----------------------------------------------------------------------------
(* Multi-limb naturals: little-endian sequences of limbs in base 10^4,     *)
(* without leading zero limbs (zero is the empty sequence).                *)

Base == 10^4

RECURSIVE BNat(_)
BNat(n) == IF n = 0 THEN <<>> ELSE <<n % Base>> \o BNat(n \div Base)

RECURSIVE BStrip(_)
BStrip(a) ==
  IF a = <<>> THEN <<>>
  ELSE IF a[Len(a)] = 0 THEN BStrip(SubSeq(a, 1, Len(a) - 1)) ELSE a

RECURSIVE BAddC(_, _, _)
BAddC(a, b, c) ==
  IF a = <<>> /\ b = <<>> THEN (IF c = 0 THEN <<>> ELSE <<c>>)
  ELSE LET x == (IF a = <<>> THEN 0 ELSE Head(a))
                + (IF b = <<>> THEN 0 ELSE Head(b)) + c
       IN  <<x % Base>> \o BAddC(IF a = <<>> THEN a ELSE Tail(a),
                                 IF b = <<>> THEN b ELSE Tail(b), x \div Base)

BAdd(a, b) == BAddC(a, b, 0)

(* a - b for a >= b.                                                       *)
RECURSIVE BSubC(_, _, _)
BSubC(a, b, c) ==
  IF a = <<>> THEN <<>>
  ELSE LET x == Head(a) - (IF b = <<>> THEN 0 ELSE Head(b)) - c
       IN  <<(x + Base) % Base>>
           \o BSubC(Tail(a), IF b = <<>> THEN b ELSE Tail(b),
                    IF x < 0 THEN 1 ELSE 0)

BSub(a, b) == BStrip(BSubC(a, b, 0))

(* -1, 0, 1 as a < b, a = b, a > b.                                        *)
RECURSIVE BCmpFrom(_, _, _)
BCmpFrom(a, b, i) ==
  IF i = 0 THEN 0
  ELSE IF a[i] < b[i] THEN -1
  ELSE IF a[i] > b[i] THEN 1
  ELSE BCmpFrom(a, b, i - 1)

BCmp(a, b) ==
  IF Len(a) < Len(b) THEN -1
  ELSE IF Len(a) > Len(b) THEN 1
  ELSE BCmpFrom(a, b, Len(a))

RECURSIVE BMulLimbC(_, _, _)
BMulLimbC(a, k, c) ==
  IF a = <<>> THEN (IF c = 0 THEN <<>> ELSE <<c>>)
  ELSE LET x == Head(a) * k + c
       IN  <<x % Base>> \o BMulLimbC(Tail(a), k, x \div Base)

BMulLimb(a, k) == IF k = 0 THEN <<>> ELSE BMulLimbC(a, k, 0)

BShift(a) == IF a = <<>> THEN <<>> ELSE <<0>> \o a

RECURSIVE BShiftN(_, _)
BShiftN(a, n) == IF n = 0 THEN a ELSE BShiftN(BShift(a), n - 1)

RECURSIVE BMul(_, _)
BMul(a, b) ==
  IF a = <<>> \/ b = <<>> THEN <<>>
  ELSE BAdd(BMulLimb(b, Head(a)), BShift(BMul(Tail(a), b)))

----------------------------------------------------------------------------
(* Exact reals with long decimal expansions:                               *)
(*   [neg, m, e, d]  stands for  (-1)^neg * m * 10^(-4e) / d               *)
(* with m, d multi-limb naturals, d > 0, e >= 0.  Not kept in lowest       *)
(* terms; BigEq and BigLess compare values.                                *)

BOne == <<1>>

Big(neg, m, e, d) == [neg |-> neg /\ m # <<>>, m |-> m, e |-> e, d |-> d]

BigOfQ(q) == Big(q[1] < 0, BNat(Abs(q[1])), 0, BNat(q[2]))

(* The decimal literal  digits * 10^(-4e),  digits given as limbs, most    *)
(* significant first, as it reads in the source.                           *)
RECURSIVE Reverse(_)
Reverse(s) == IF s = <<>> THEN <<>> ELSE Reverse(Tail(s)) \o <<Head(s)>>

Dec(neg, limbs, e) == Big(neg, BStrip(Reverse(limbs)), e, BOne)

BigNeg(a) == Big(~a.neg, a.m, a.e, a.d)

(* Signed sum of two magnitudes.                                           *)
BigSigned(an, am, bn, bm, e, d) ==
  IF an = bn THEN Big(an, BAdd(am, bm), e, d)
  ELSE IF BCmp(am, bm) >= 0 THEN Big(an, BSub(am, bm), e, d)
  ELSE Big(bn, BSub(bm, am), e, d)

BigAdd(a, b) ==
  LET e  == IF a.e > b.e THEN a.e ELSE b.e
      am == BShiftN(a.m, e - a.e)
      bm == BShiftN(b.m, e - b.e)
  IN  IF a.d = b.d THEN BigSigned(a.neg, am, b.neg, bm, e, a.d)
      ELSE BigSigned(a.neg, BMul(am, b.d), b.neg, BMul(bm, a.d), e,
                     BMul(a.d, b.d))

BigSub(a, b) == BigAdd(a, BigNeg(b))

BigMul(a, b) ==
  Big(a.neg # b.neg, BMul(a.m, b.m), a.e + b.e,
      IF a.d = BOne THEN b.d ELSE IF b.d = BOne THEN a.d ELSE BMul(a.d, b.d))

(* a / b for b # 0:  ma * db * 10^(4 eb) / (da * mb * 10^(4 ea)).          *)
BigDiv(a, b) ==
  LET e == IF a.e > b.e THEN a.e - b.e ELSE 0
      s == IF b.e > a.e THEN b.e - a.e ELSE 0
  IN  Big(a.neg # b.neg, BShiftN(BMul(a.m, b.d), s), e, BMul(a.d, b.m))

(* Exact reals are carried while their numerators and denominators stay    *)
(* within MaxLimbs limbs; a result that would not is kept as a term.       *)
MaxLimbs == 32

BigAddFits(a, b) ==
  LET e == IF a.e > b.e THEN a.e ELSE b.e
  IN  /\ Len(a.m) + (e - a.e) + Len(b.d) <= MaxLimbs
      /\ Len(b.m) + (e - b.e) + Len(a.d) <= MaxLimbs
      /\ Len(a.d) + Len(b.d) <= MaxLimbs

BigMulFits(a, b) ==
  /\ Len(a.m) + Len(b.m) <= MaxLimbs
  /\ Len(a.d) + Len(b.d) <= MaxLimbs

BigDivFits(a, b) ==
  /\ Len(a.m) + Len(b.d) + (IF b.e > a.e THEN b.e - a.e ELSE 0) <= MaxLimbs
  /\ Len(a.d) + Len(b.m) <= MaxLimbs

BigIsZero(a) == a.m = <<>>

BigSign(a) == IF a.m = <<>> THEN 0 ELSE IF a.neg THEN -1 ELSE 1

BigLess(a, b) == BigSign(BigSub(a, b)) < 0

BigEq(a, b) == BigSign(BigSub(a, b)) = 0

BigAbs(a) == Big(FALSE, a.m, a.e, a.d)

----------------------------------------------------------------------------
(* Values.                                                                 *)
(*   [k |-> "q", re, im, g, p]   the exact complex number                  *)
(*                               (re + i*im) * gt^g * PI^p, re and im       *)
(*                               small rationals                           *)
(*   [k |-> "big", v, g, p]      the exact real  v * gt^g * PI^p           *)
(*   [k |-> "nan"]               NaN                                       *)
(*   [k |-> "inf"]               a nonzero number divided by zero          *)
(*   [k |-> "app", op, args]     the finite number op(args) that has no    *)
(*                               exact representation above                *)
(* gt and PI are constants of ripple.constants, positive reals whose       *)
(* values the module never inspects.                                       *)

Q0 == <<0, 1>>

Q1 == <<1, 1>>

Cx(re, im) == [k |-> "q", re |-> re, im |-> im, g |-> 0, p |-> 0]

Num(q) == Cx(q, Q0)

Int2V(n) == Num(QInt(n))

Zero == Num(Q0)

One == Num(Q1)

NaN == [k |-> "nan"]

Inf == [k |-> "inf"]

App(op, args) == [k |-> "app", op |-> op, args |-> args]

Unit(re, im, g, p) ==
  IF re = Q0 /\ im = Q0 THEN Zero
  ELSE [k |-> "q", re |-> re, im |-> im, g |-> g, p |-> p]

BigV(v, g, p) ==
  IF BigIsZero(v) THEN Zero ELSE [k |-> "big", v |-> v, g |-> g, p |-> p]

(* Constants imported from ripple.constants.                               *)
gt == Unit(Q1, Q0, 1, 0)

PI == Unit(Q1, Q0, 0, 1)

m_per_Mpc == App("m_per_Mpc", <<>>)

C == App("C", <<>>)

IsBad(a) == a.k \in {"nan", "inf"}

IsZero(a) == a = Zero

IsOne(a) == a = One

IsQ(a) == a.k = "q"

IsExactReal(a) == a.k = "big" \/ (a.k = "q" /\ a.im = Q0)

ToBig(a) == IF a.k = "big" THEN a.v ELSE BigOfQ(a.re)

SameUnit(a, b) == a.g = b.g /\ a.p = b.p

(* The operations on values: XOf is the result of operation X on          *)
(* evaluated operands.                                                     *)

(* Whether a sum, a product of small rationals fits the model checker's   *)
(* integers.  Exact reals that do not are carried in the multi-limb form.  *)
MaxInt == 2147483646 + 1

FitsMul(x, y) == y = 0 \/ Abs(x) <= (MaxInt \div 2) \div Abs(y)

QAddFits(a, b) ==
  LET g == Gcd(a[2], b[2])
  IN  /\ FitsMul(a[1], b[2] \div g)
      /\ FitsMul(b[1], a[2] \div g)
      /\ FitsMul(a[2] \div g, b[2])

QMulFits(a, b) ==
  LET g1 == Gcd(Abs(a[1]), b[2])
      g2 == Gcd(Abs(b[1]), a[2])
  IN  /\ FitsMul(a[1] \div g1, b[1] \div g2)
      /\ FitsMul(a[2] \div g2, b[2] \div g1)

IsReal(a) == a.im = Q0

(* Complex rationals with components this small multiply exactly.          *)
TinyLimit == 180

TinyQ(q) == Abs(q[1]) < TinyLimit /\ q[2] < TinyLimit

Tiny(a) == TinyQ(a.re) /\ TinyQ(a.im)

BothQ(a, b) == IsQ(a) /\ IsQ(b)

BothBig(a, b) == IsExactReal(a) /\ IsExactReal(b)

(* A float literal with a short decimal expansion, n / d.                  *)
Lit(n, d) == Num(Q(n, d))

(* A float literal with a long decimal expansion.                          *)
LongLit(neg, limbs, e) == BigV(Dec(neg, limbs, e), 0, 0)

TNegOf(a) ==
  IF IsBad(a) THEN NaN
  ELSE IF IsQ(a) THEN Unit(QNeg(a.re), QNeg(a.im), a.g, a.p)
  ELSE IF a.k = "big" THEN BigV(BigNeg(a.v), a.g, a.p)
  ELSE App("neg", <<a>>)


TAddOf(a, b) ==
  IF IsBad(a) \/ IsBad(b) THEN NaN
  ELSE IF IsZero(a) THEN b
  ELSE IF IsZero(b) THEN a
  ELSE IF BothQ(a, b) /\ SameUnit(a, b) /\ QAddFits(a.re, b.re)
          /\ QAddFits(a.im, b.im)
       THEN Unit(QAdd(a.re, b.re), QAdd(a.im, b.im), a.g, a.p)
  ELSE IF BothBig(a, b) /\ SameUnit(a, b) /\ BigAddFits(ToBig(a), ToBig(b))
       THEN BigV(BigAdd(ToBig(a), ToBig(b)), a.g, a.p)
  ELSE App("add", <<a, b>>)


TSubOf(a, b) ==
  IF IsBad(a) \/ IsBad(b) THEN NaN
  ELSE IF IsZero(b) THEN a
  ELSE IF IsZero(a) THEN TNegOf(b)
  ELSE IF BothQ(a, b) /\ SameUnit(a, b) /\ QAddFits(a.re, b.re)
          /\ QAddFits(a.im, b.im)
       THEN Unit(QSub(a.re, b.re), QSub(a.im, b.im), a.g, a.p)
  ELSE IF BothBig(a, b) /\ SameUnit(a, b) /\ BigAddFits(ToBig(a), ToBig(b))
       THEN BigV(BigSub(ToBig(a), ToBig(b)), a.g, a.p)
  ELSE App("sub", <<a, b>>)


TMulOf(a, b) ==
  IF a.k = "nan" \/ b.k = "nan" THEN NaN
  ELSE IF a.k = "inf" \/ b.k = "inf"
       THEN (IF IsZero(a) \/ IsZero(b) THEN NaN ELSE Inf)
  ELSE IF IsZero(a) \/ IsZero(b) THEN Zero
  ELSE IF IsOne(a) THEN b
  ELSE IF IsOne(b) THEN a
  ELSE IF BothQ(a, b) /\ IsReal(a) /\ IsReal(b) /\ QMulFits(a.re, b.re)
       THEN Unit(QMul(a.re, b.re), Q0, a.g + b.g, a.p + b.p)
  ELSE IF BothBig(a, b) /\ BigMulFits(ToBig(a), ToBig(b))
       THEN BigV(BigMul(ToBig(a), ToBig(b)), a.g + b.g, a.p + b.p)
  ELSE IF BothQ(a, b) /\ Tiny(a) /\ Tiny(b)
       THEN Unit(QSub(QMul(a.re, b.re), QMul(a.im, b.im)),
                 QAdd(QMul(a.re, b.im), QMul(a.im, b.re)),
                 a.g + b.g, a.p + b.p)
  ELSE App("mul", <<a, b>>)


(* 1 / (re + i*im) for a nonzero exact complex number.                     *)
QCxInv(a) ==
  LET n == QAdd(QMul(a.re, a.re), QMul(a.im, a.im))
  IN  Unit(QDiv(a.re, n), QNeg(QDiv(a.im, n)), -a.g, -a.p)

TDivOf(a, b) ==
  IF a.k = "nan" \/ b.k = "nan" THEN NaN
  ELSE IF IsZero(b) THEN (IF IsZero(a) THEN NaN ELSE Inf)
  ELSE IF a.k = "inf" THEN (IF b.k = "inf" THEN NaN ELSE Inf)
  ELSE IF b.k = "inf" THEN Zero
  ELSE IF IsZero(a) THEN Zero
  ELSE IF IsOne(b) THEN a
  ELSE IF BothQ(a, b) /\ IsReal(a) /\ IsReal(b)
          /\ QMulFits(a.re, QInv(b.re))
       THEN Unit(QDiv(a.re, b.re), Q0, a.g - b.g, a.p - b.p)
  ELSE IF BothBig(a, b) /\ BigDivFits(ToBig(a), ToBig(b))
       THEN BigV(BigDiv(ToBig(a), ToBig(b)), a.g - b.g, a.p - b.p)
  ELSE IF BothQ(a, b) /\ Tiny(a) /\ Tiny(b)
       THEN LET i == QCxInv(b)
            IN  IF Tiny(i) THEN TMulOf(a, i) ELSE App("div", <<a, b>>)
  ELSE App("div", <<a, b>>)


RECURSIVE TPowNat(_, _)
TPowNat(a, n) == IF n = 0 THEN One ELSE TMulOf(a, TPowNat(a, n - 1))

(* a ** e for a float exponent e, given as a rational.                     *)
TPowOf(a, e) ==
  IF IsBad(a) THEN NaN
  ELSE IF e = Q0 THEN One
  ELSE IF e[2] = 1 /\ e[1] > 0 /\ a.k \in {"q", "big"} THEN TPowNat(a, e[1])
  ELSE IF IsZero(a) /\ e[1] > 0 THEN Zero
  ELSE IF IsOne(a) THEN One
  ELSE App("pow", <<a, Num(e)>>)


TSqrtOf(a) ==
  IF IsBad(a) THEN NaN
  ELSE IF IsQ(a) /\ a.im = Q0 /\ a.re[1] >= 0 /\ a.g % 2 = 0 /\ a.p % 2 = 0
          /\ ISqrt(a.re[1]) >= 0 /\ ISqrt(a.re[2]) >= 0
       THEN Unit(<<ISqrt(a.re[1]), ISqrt(a.re[2])>>, Q0,
                 a.g \div 2, a.p \div 2)
  ELSE App("sqrt", <<a>>)


(* |a|, the modulus of a complex number.                                   *)
TAbsOf(a) ==
  IF IsBad(a) THEN NaN
  ELSE IF IsQ(a) /\ a.im = Q0 THEN Unit(<<Abs(a.re[1]), a.re[2]>>, Q0, a.g, a.p)
  ELSE IF IsQ(a) /\ a.g = 0 /\ a.p = 0
       THEN LET s == TSqrtOf(Num(QAdd(QMul(a.re, a.re), QMul(a.im, a.im))))
            IN  IF IsQ(s) THEN s ELSE App("abs", <<a>>)
  ELSE IF a.k = "big" THEN BigV(BigAbs(a.v), a.g, a.p)
  ELSE App("abs", <<a>>)


TExpOf(a) ==
  IF IsBad(a) THEN NaN ELSE IF IsZero(a) THEN One ELSE App("exp", <<a>>)


TCosOf(a) ==
  IF IsBad(a) THEN NaN ELSE IF IsZero(a) THEN One ELSE App("cos", <<a>>)


(* jnp.heaviside(x, 1): 0 for x < 0, 1 for x >= 0.                        *)
THeavisideOf(a) ==
  IF IsBad(a) THEN NaN
  ELSE IF IsQ(a) /\ a.im = Q0 THEN (IF a.re[1] < 0 THEN Zero ELSE One)
  ELSE IF a.k = "big" THEN (IF a.v.neg THEN Zero ELSE One)
  ELSE App("heaviside", <<a, One>>)


(* jnp.log, line 142: exact at 1, the double precision value on the other  *)
(* deformabilities of the model, the term log(x) elsewhere.                *)

TLogOf(a) ==
  IF IsBad(a) THEN NaN
  ELSE IF IsOne(a) THEN Zero
  ELSE IF a = Lit(1001, 1000) THEN LongLit(FALSE, <<9, 9950, 333, 834, 2320>>, 5)
  ELSE IF a = Int2V(300) THEN LongLit(FALSE, <<5, 7037, 8247, 4656, 2010>>, 4)
  ELSE IF a = Int2V(400) THEN LongLit(FALSE, <<5, 9914, 6454, 7107, 9820>>, 4)
  ELSE IF IsQ(a) /\ a.im = Q0 /\ a.re[1] < 0 THEN NaN
  ELSE App("log", <<a>>)

(* The value of an expression: its operands' values combined by the       *)
(* operation.  Terms that name no operation (the imported constants, NaN,  *)
(* numbers) are their own value.                                           *)
Apply(op, a) ==
  CASE op = "neg" -> TNegOf(a[1])
    [] op = "add" -> TAddOf(a[1], a[2])
    [] op = "sub" -> TSubOf(a[1], a[2])
    [] op = "mul" -> TMulOf(a[1], a[2])
    [] op = "div" -> TDivOf(a[1], a[2])
    [] op = "pow" -> TPowOf(a[1], a[2].re)
    [] op = "sqrt" -> TSqrtOf(a[1])
    [] op = "abs" -> TAbsOf(a[1])
    [] op = "exp" -> TExpOf(a[1])
    [] op = "cos" -> TCosOf(a[1])
    [] op = "heaviside" -> THeavisideOf(a[1])
    [] op = "log" -> TLogOf(a[1])
    [] OTHER -> App(op, a)

(* An expression still to be evaluated: an operation on expressions.      *)
Expr(op, args) == [k |-> "expr", op |-> op, args |-> args]

RECURSIVE Value(_)
Value(t) ==
  IF t.k = "expr"
    THEN Apply(t.op, [i \in 1..Len(t.args) |-> Value(t.args[i])])
    ELSE t

(* The values of an array of expressions, of a record of expressions.     *)
Values(r) == [n \in DOMAIN r |-> Value(r[n])]

(* The expressions of the source.  The functions below build the           *)
(* expression a function of the source computes; Value evaluates it.       *)
TNeg(a) == Expr("neg", <<a>>)

TAdd(a, b) == Expr("add", <<a, b>>)

TSub(a, b) == Expr("sub", <<a, b>>)

TMul(a, b) == Expr("mul", <<a, b>>)

TDiv(a, b) == Expr("div", <<a, b>>)

TPow(a, e) == Expr("pow", <<a, Num(e)>>)

TSqrt(a) == Expr("sqrt", <<a>>)

TAbs(a) == Expr("abs", <<a>>)

TExp(a) == Expr("exp", <<a>>)

TCos(a) == Expr("cos", <<a>>)

THeaviside(a) == Expr("heaviside", <<a, One>>)

TLog(a) == Expr("log", <<a>>)

(* 1j                                                                      *)
ImagUnit == Cx(Q0, Q1)

----------------------------------------------------------------------------
(* Array helpers (jnp broadcasting over the frequency grid).               *)

zeros_like(f) == [i \in 1..Len(f) |-> Zero]

ones_like(f) == [i \in 1..Len(f) |-> One]

----------------------------------------------------------------------------
(* get_kappa, lines 62-79.                                                 *)

(* get_kappa with the second term weighted by X1 instead of X2.           *)
kappa_weighting_both_by_X1(theta) ==
  LET m1      == theta.m1
      m2      == theta.m2
      m1_s    == TMul(m1, gt)
      m2_s    == TMul(m2, gt)
      M_s     == TAdd(m1_s, m2_s)
      X1      == TDiv(m1_s, M_s)
      term1   == TMul(TMul(TAdd(One, TDiv(TMul(Int2V(12), m2), m1)),
                           TPow(X1, <<5, 1>>)), theta.lambda1)
      term2   == TMul(TMul(TAdd(One, TDiv(TMul(Int2V(12), m1), m2)),
                           TPow(X1, <<5, 1>>)), theta.lambda2)
  IN  TMul(TDiv(Int2V(3), Int2V(13)), TAdd(term1, term2))

get_kappa(theta) ==
  LET m1      == theta.m1
      m2      == theta.m2
      lambda1 == theta.lambda1
      lambda2 == theta.lambda2
      m1_s    == TMul(m1, gt)
      m2_s    == TMul(m2, gt)
      M_s     == TAdd(m1_s, m2_s)
      X1      == TDiv(m1_s, M_s)
      X2      == TDiv(m2_s, M_s)
      term1   == TMul(TMul(TAdd(One, TDiv(TMul(Int2V(12), m2), m1)),
                           TPow(X1, <<5, 1>>)), lambda1)
      term2   == TMul(TMul(TAdd(One, TDiv(TMul(Int2V(12), m1), m2)),
                           TPow(X2, <<5, 1>>)), lambda2)
  IN  TMul(TDiv(Int2V(3), Int2V(13)), TAdd(term1, term2))

----------------------------------------------------------------------------
(* get_tidal_phase at one sample, lines 82-123.  f is the frequency the    *)
(* caller passes, which _gen_NRTidalv2 has already multiplied by M_s.       *)

tidal_phase_at(f, theta, kappa) ==
  LET m1_s        == TMul(theta.m1, gt)
      m2_s        == TMul(theta.m2, gt)
      M_s         == TAdd(m1_s, m2_s)
      eta         == TDiv(TMul(m1_s, m2_s), TPow(M_s, <<2, 1>>))
      M_omega     == TMul(TMul(PI, f), M_s)
      PN_x        == TPow(M_omega, <<2, 3>>)
      PN_x_2      == TMul(PN_x, PN_x)
      PN_x_3over2 == TPow(PN_x, <<3, 2>>)
      PN_x_5over2 == TPow(PN_x, <<5, 2>>)
      n_1         == Lit(-17428, 1000)
      n_3over2    == Lit(31867, 1000)
      n_2         == Lit(-26414, 1000)
      n_5over2    == Lit(62362, 1000)
      d_1         == TSub(n_1, Lit(2496, 1000))
      d_3over2    == Lit(36089, 1000)
      num         == TAdd(TAdd(TAdd(TAdd(One, TMul(n_1, PN_x)),
                                         TMul(n_3over2, PN_x_3over2)),
                                    TMul(n_2, PN_x_2)),
                               TMul(n_5over2, PN_x_5over2))
      den         == TAdd(TAdd(One, TMul(d_1, PN_x)),
                          TMul(d_3over2, PN_x_3over2))
      ratio       == TDiv(num, den)
  IN  TMul(TMul(TMul(TNeg(kappa),
                     TDiv(Int2V(39), TMul(Int2V(16), eta))),
                TPow(f, <<5, 2>>)),
           ratio)

get_tidal_phase(f, theta, kappa) ==
  [i \in 1..Len(f) |-> tidal_phase_at(f[i], theta, kappa)]

----------------------------------------------------------------------------

(* _compute_quadparam_octparam, lines 126-151.                             *)

InUnitInterval(lambda_) ==
  IsQ(lambda_) /\ lambda_.im = Q0 /\ lambda_.g = 0 /\ lambda_.p = 0
  /\ lambda_.re[1] >= 0 /\ lambda_.re[1] <= lambda_.re[2]

quadparam_poly_branch(lambda_) ==
  TAdd(One,
       TMul(lambda_,
            TAdd(LongLit(FALSE, <<4276, 8886, 6723, 2440>>, 4),
                 TMul(lambda_,
                      TAdd(LongLit(TRUE, <<3243, 3652, 6985, 680>>, 4),
                           TMul(lambda_,
                                LongLit(FALSE, <<1107, 4394, 3218, 572>>,
                                        4)))))))

quadparam_universal_branch(lambda_) ==
  LET log_lambda == TLog(lambda_)
  IN  TAdd(TSub(TAdd(TAdd(LongLit(FALSE, <<1940>>, 1),
                          TMul(LongLit(FALSE, <<916, 3000>>, 2), log_lambda)),
                     TMul(LongLit(FALSE, <<481, 2000>>, 2),
                          TPow(log_lambda, <<2, 1>>))),
                TMul(LongLit(FALSE, <<42, 8600>>, 2),
                     TPow(log_lambda, <<3, 1>>))),
           TMul(LongLit(FALSE, <<1, 2450>>, 2), TPow(log_lambda, <<4, 1>>)))

_compute_quadparam_octparam(lambda_) ==
  LET log_quadparam ==
        IF InUnitInterval(lambda_) THEN quadparam_poly_branch(lambda_)
        ELSE quadparam_universal_branch(lambda_)
      log_octparam ==
        TSub(TAdd(TSub(TAdd(LongLit(FALSE, <<31, 3100>>, 2),
                            TMul(LongLit(FALSE, <<2, 710>>, 1),
                                 log_quadparam)),
                       TMul(LongLit(FALSE, <<7152>>, 1),
                            TPow(log_quadparam, <<2, 1>>))),
                  TMul(LongLit(FALSE, <<2458>>, 1),
                       TPow(log_quadparam, <<3, 1>>))),
             TMul(LongLit(FALSE, <<330, 9000>>, 2),
                  TPow(log_quadparam, <<4, 1>>)))
  IN  Values([log_quadparam |-> log_quadparam,
              quadparam     |-> TSub(TExp(log_quadparam), One),
              octparam      |-> TSub(TExp(log_octparam), One)])

----------------------------------------------------------------------------
(* get_spin_phase_correction, lines 155-194.                               *)

(* Lines 160-188 at one sample, given what the two calls of                *)
(* _compute_quadparam_octparam (lines 175-176) returned.                   *)
spin_phase_from(f, theta, qo1, qo2) ==
  LET chi1    == theta.chi1
      chi2    == theta.chi2
      m1_s    == TMul(theta.m1, gt)
      m2_s    == TMul(theta.m2, gt)
      M_s     == TAdd(m1_s, m2_s)
      eta     == TDiv(TMul(m1_s, m2_s), TPow(M_s, <<2, 1>>))
      X1      == TDiv(m1_s, M_s)
      X2      == TDiv(m2_s, M_s)
      X1sq    == TMul(X1, X1)
      X2sq    == TMul(X2, X2)
      chi1_sq == TMul(chi1, chi1)
      chi2_sq == TMul(chi2, chi2)
      quadparam1 == qo1.quadparam
      octparam1  == qo1.octparam
      quadparam2 == qo2.quadparam
      octparam2  == qo2.octparam
      SS_2    == TAdd(TMul(TMul(TMul(Int2V(-50), quadparam1), X1sq), chi1_sq),
                      TMul(TMul(TMul(Int2V(-50), quadparam2), X2sq), chi2_sq))
      SS_3_of(X, quadparam, chi) ==
        TMul(TMul(TMul(TMul(TDiv(Int2V(5), Int2V(84)),
                            TSub(TAdd(Int2V(9407), TMul(Int2V(8218), X)),
                                 TMul(Int2V(2016), TPow(X, <<2, 1>>)))),
                       quadparam),
                  TPow(X, <<2, 1>>)),
             TPow(chi, <<2, 1>>))
      SS_3    == TAdd(SS_3_of(X1, quadparam1, chi1),
                      SS_3_of(X2, quadparam2, chi2))
      c400pi  == TMul(Int2V(400), PI)
      c308    == TDiv(Int2V(308), Int2V(3))
      c89     == TDiv(Int2V(89), Int2V(3))
      SS_3p5a == TSub(TMul(TMul(TMul(TNeg(c400pi), TSub(quadparam1, One)),
                                chi1_sq), X1sq),
                      TMul(TMul(TMul(c400pi, TSub(quadparam2, One)),
                                chi2_sq), X2sq))
      SS_3p5b ==
        TSub(TSub(TAdd(
          TMul(TMul(TMul(TMul(Int2V(10),
                 TAdd(TMul(TAdd(X1sq, TMul(c308, X1)), chi1),
                      TMul(TSub(X2, TMul(c89, X2)), chi2))),
               TSub(quadparam1, One)), X1sq), chi1_sq),
          TMul(TMul(TMul(TMul(Int2V(10),
                 TAdd(TMul(TAdd(X2sq, TMul(c308, X2)), chi2),
                      TMul(TSub(X1sq, TMul(c89, X1)), chi1))),
               TSub(quadparam2, One)), X2sq), chi2_sq)),
          TMul(TMul(TMul(TMul(TMul(Int2V(440), octparam1), X1), X1sq),
                    chi1_sq), chi1)),
          TMul(TMul(TMul(TMul(TMul(Int2V(440), octparam2), X2), X2sq),
                    chi2_sq), chi2))
      SS_3p5  == TAdd(SS_3p5a, SS_3p5b)
  IN  TMul(TDiv(Int2V(3), TMul(Int2V(128), eta)),
           TAdd(TAdd(TMul(SS_2, TPow(f, <<-1, 2>>)),
                     TMul(SS_3, TPow(f, <<1, 2>>))),
                TMul(SS_3p5, f)))

(* psi_SS as line 188 computes it at one sample, before the override.      *)
spin_phase_at(f, theta) ==
  spin_phase_from(f, theta, _compute_quadparam_octparam(theta.lambda1),
                  _compute_quadparam_octparam(theta.lambda2))

(* Line 188 without the override of line 192.                              *)
spin_phase_no_override(f, theta) ==
  [i \in 1..Len(f) |-> spin_phase_at(f[i], theta)]

(* The correction as it would reach the caller if line 192 did not        *)
(* overwrite it.                                                           *)
spin_phase_returned_as_computed(f, theta) == spin_phase_no_override(f, theta)

get_spin_phase_correction(f, theta) ==
  LET psi_SS == spin_phase_no_override(f, theta)
  IN  zeros_like(f)

----------------------------------------------------------------------------
(* get_tidal_amplitude, lines 197-225.                                     *)

tidal_amplitude_at(f, theta, kappa, dL) ==
  LET m1_s   == TMul(theta.m1, gt)
      m2_s   == TMul(theta.m2, gt)
      M_s    == TAdd(m1_s, m2_s)
      M_sec  == TMul(M_s, gt)
      prefac == TMul(Int2V(9), kappa)
      x      == TPow(TMul(TMul(PI, M_sec), f), <<2, 3>>)
      n1     == LongLit(FALSE, <<4, 1574, 740, 7407, 4070>>, 4)
      n289   == LongLit(FALSE, <<2519, 1111, 1111, 1111>>, 3)
      d      == LongLit(FALSE, <<1, 3477, 8073, 6770>>, 2)
      poly   == TDiv(TAdd(TAdd(One, TMul(n1, x)),
                          TMul(n289, TPow(x, <<289, 100>>))),
                     TAdd(One, TMul(d, TPow(x, <<4, 1>>))))
      ampT   == TMul(TMul(TNeg(prefac), TPow(x, <<13, 4>>)), poly)
      dist_s == TDiv(TMul(dL, m_per_Mpc), C)
  IN  [M_sec |-> M_sec, x |-> x, kappa |-> kappa,
       A_T |-> TDiv(ampT, dist_s)]

get_tidal_amplitude(f, theta, kappa, dL) ==
  [i \in 1..Len(f) |-> tidal_amplitude_at(f[i], theta, kappa, dL).A_T]

----------------------------------------------------------------------------
(* _get_merger_frequency, lines 228-265.  kappa = None stands for the      *)
(* default argument.                                                       *)

None == [k |-> "none"]

(* Whether a call was made, as a field of a record of values.             *)
Flag(b) == [k |-> "flag", on |-> b]

(* The merger frequency with the Pade ratio upside down, den / num.       *)
merger_frequency_inverted_ratio(theta, kappa_arg) ==
  LET m1_s  == TMul(theta.m1, gt)
      m2_s  == TMul(theta.m2, gt)
      M_s   == TAdd(m1_s, m2_s)
      X1    == TDiv(m1_s, M_s)
      X2    == TDiv(m2_s, M_s)
      kappa == IF kappa_arg = None THEN get_kappa(theta) ELSE kappa_arg
      num   == TAdd(TAdd(One, TMul(LongLit(FALSE, <<335, 4112, 300>>, 3),
                                   kappa)),
                    TMul(LongLit(FALSE, <<0, 4314, 6028, 4000>>, 4),
                         TPow(kappa, <<2, 1>>)))
      den   == TAdd(TAdd(One, TMul(LongLit(FALSE, <<754, 2241, 4500>>, 3),
                                   kappa)),
                    TMul(LongLit(FALSE, <<2, 2362, 6859>>, 3),
                         TPow(kappa, <<2, 1>>)))
      Q_0   == TMul(Lit(3586, 10000), TSqrt(TDiv(X2, X1)))
      Momega_merger == TMul(Q_0, TDiv(den, num))
      fHz_merger    == TDiv(TDiv(Momega_merger, M_s), TMul(Int2V(2), PI))
  IN  [kappa |-> kappa, calls_get_kappa |-> Flag(kappa_arg = None),
       Q_0 |-> Q_0, ratio |-> TDiv(den, num),
       Momega_merger |-> Momega_merger, fHz_merger |-> fHz_merger]

_get_merger_frequency(theta, kappa_arg) ==
  LET m1_s  == TMul(theta.m1, gt)
      m2_s  == TMul(theta.m2, gt)
      M_s   == TAdd(m1_s, m2_s)
      X1    == TDiv(m1_s, M_s)
      X2    == TDiv(m2_s, M_s)
      kappa == IF kappa_arg = None THEN get_kappa(theta) ELSE kappa_arg
      a_0   == Lit(3586, 10000)
      n_1   == LongLit(FALSE, <<335, 4112, 300>>, 3)
      n_2   == LongLit(FALSE, <<0, 4314, 6028, 4000>>, 4)
      d_1   == LongLit(FALSE, <<754, 2241, 4500>>, 3)
      d_2   == LongLit(FALSE, <<2, 2362, 6859>>, 3)
      num   == TAdd(TAdd(One, TMul(n_1, kappa)),
                    TMul(n_2, TPow(kappa, <<2, 1>>)))
      den   == TAdd(TAdd(One, TMul(d_1, kappa)),
                    TMul(d_2, TPow(kappa, <<2, 1>>)))
      Q_0   == TMul(a_0, TSqrt(TDiv(X2, X1)))
      Momega_merger == TMul(Q_0, TDiv(num, den))
      fHz_merger    == TDiv(TDiv(Momega_merger, M_s), TMul(Int2V(2), PI))
  IN  [kappa |-> kappa, calls_get_kappa |-> Flag(kappa_arg = None),
       Q_0 |-> Q_0, ratio |-> TDiv(num, den),
       Momega_merger |-> Momega_merger, fHz_merger |-> fHz_merger]

----------------------------------------------------------------------------
(* _planck_taper at one sample, lines 270-289.                             *)

_planck_taper(t, t1, t2) ==
  LET middle == TDiv(One,
                     TAdd(TExp(TAdd(TDiv(TSub(t2, t1), TSub(t, t1)),
                                    TDiv(TSub(t2, t1), TSub(t, t2)))),
                          One))
  IN  TAdd(TAdd(TMul(THeaviside(TSub(t1, t)), Zero),
                TMul(TMul(THeaviside(TSub(t, t1)), THeaviside(TSub(t2, t))),
                     middle)),
           TMul(THeaviside(TSub(t, t2)), One))

(* get_planck_taper, lines 291-313.                                        *)

(* The locals of get_planck_taper up to line 307.                          *)
planck_taper_locals(f, theta, kappa) ==
  LET mf       == _get_merger_frequency(theta, kappa)
      f_merger == mf.fHz_merger
      f_start  == f_merger
      f_end    == TMul(Lit(12, 10), f_merger)
  IN  [mf |-> mf,
       A_P |-> [i \in 1..Len(f) |-> _planck_taper(f[i], f_start, f_end)]]

(* A taper that calls _get_merger_frequency without the kappa it was      *)
(* given, which makes the callee compute kappa again.                      *)
taper_not_forwarding_kappa(f, theta, kappa) ==
  [mf |-> planck_taper_locals(f, theta, None).mf, A_P |-> zeros_like(f)]

(* The taper as it would reach the caller if line 311 did not overwrite   *)
(* it.                                                                     *)
taper_returned_as_computed(f, theta, kappa) == planck_taper_locals(f, theta, kappa)

get_planck_taper(f, theta, kappa) ==
  [mf |-> planck_taper_locals(f, theta, kappa).mf, A_P |-> zeros_like(f)]

----------------------------------------------------------------------------
(* _gen_NRTidalv2, lines 315-344, statement by statement.                  *)

gen_M_s(theta_intrinsic) ==
  TMul(TAdd(theta_intrinsic.m1, theta_intrinsic.m2), gt)

gen_A_bbh(h0_bbh) == [i \in 1..Len(h0_bbh) |-> TAbs(h0_bbh[i])]

gen_psi_bbh(h0_bbh, A_bbh) ==
  [i \in 1..Len(h0_bbh) |-> TDiv(h0_bbh[i], A_bbh[i])]

(* Line 328: the locals of get_tidal_amplitude at each sample.             *)
gen_amplitude(f, theta_intrinsic, theta_extrinsic, kappa) ==
  [i \in 1..Len(f) |->
     tidal_amplitude_at(f[i], theta_intrinsic, kappa, theta_extrinsic[1])]

(* Line 330.                                                               *)
gen_A_P(f, theta_intrinsic, kappa) ==
  LET taper == get_planck_taper(f, theta_intrinsic, kappa)
  IN  [mf |-> taper.mf,
       A_P |-> [i \in 1..Len(f) |-> TSub(ones_like(f)[i], taper.A_P[i])]]

(* f * M_s of lines 333 and 335.                                           *)
gen_scaled_f(f, M_s) == [i \in 1..Len(f) |-> TMul(f[i], M_s)]

(* Line 337 at one sample.                                                 *)
gen_h0_at(A_P, h0_bbh, A_T, psi_bbh, psi_T, psi_SS) ==
  TMul(TMul(A_P,
            TAdd(h0_bbh, TMul(A_T, TExp(TMul(ImagUnit, TNeg(psi_bbh)))))),
       TExp(TMul(ImagUnit, TNeg(TAdd(psi_T, psi_SS)))))

_gen_NRTidalv2(f, theta_intrinsic, theta_extrinsic, h0_bbh) ==
  LET M_s     == gen_M_s(theta_intrinsic)
      kappa   == get_kappa(theta_intrinsic)
      A_bbh   == gen_A_bbh(h0_bbh)
      psi_bbh == gen_psi_bbh(h0_bbh, A_bbh)
      A_T     == get_tidal_amplitude(f, theta_intrinsic, kappa,
                                     theta_extrinsic[1])
      A_P     == gen_A_P(f, theta_intrinsic, kappa).A_P
      psi_T   == get_tidal_phase(gen_scaled_f(f, M_s), theta_intrinsic, kappa)
      psi_SS  == get_spin_phase_correction(gen_scaled_f(f, M_s),
                                           theta_intrinsic)
  IN  [i \in 1..Len(f) |->
         gen_h0_at(A_P[i], h0_bbh[i], A_T[i], psi_bbh[i], psi_T[i],
                   psi_SS[i])]

----------------------------------------------------------------------------
(* gen_NRTidalv2, lines 346-392.                                           *)

(* ripple.Mc_eta_to_ms.  A chirp mass is carried as the pair of component  *)
(* masses it stands for, heavier first; the conversion returns that pair.  *)
Mchirp_of(ma, mb) == App("Mchirp", <<ma, mb>>)

Mc_eta_to_ms(Mc, eta) == <<Mc.args[1], Mc.args[2]>>

gen_theta_intrinsic(params) ==
  LET ms == Mc_eta_to_ms(params[1], params[2])
  IN  [m1 |-> ms[1], m2 |-> ms[2], chi1 |-> params[3], chi2 |-> params[4],
       lambda1 |-> params[5], lambda2 |-> params[6]]

gen_theta_extrinsic(params) == SubSeq(params, 7, Len(params))

gen_bbh_params(params) ==
  <<params[1], params[2], params[3], params[4]>> \o gen_theta_extrinsic(params)

Recognized(IMRphenom) == IMRphenom = "IMRPhenomD"

(* A fallback that answers with ones_like(f) instead of zeros_like(f).    *)
unrecognized_returns_ones(f) == [i \in 1..Len(f) |-> One]

(* Line 386.                                                               *)
gen_unrecognized_return(f) == zeros_like(f)

----------------------------------------------------------------------------
(* gen_NRTidalv2_hphc, lines 395-423.                                      *)

hphc_iota(params) == params[Len(params)]

hphc_gen_params(params) == SubSeq(params, 1, Len(params) - 1)

hphc_hp(h0, iota) ==
  [i \in 1..Len(h0) |->
     TMul(h0[i], TMul(TDiv(One, Int2V(2)),
                      TAdd(One, TPow(TCos(iota), <<2, 1>>))))]

(* A cross projection proportional to 1 - cos(iota), which vanishes       *)
(* face-on.                                                                *)
hc_vanishing_face_on(h0, iota) ==
  [i \in 1..Len(h0) |->
     TMul(TMul(TNeg(ImagUnit), h0[i]), TSub(One, TCos(iota)))]

hphc_hc(h0, iota) ==
  [i \in 1..Len(h0) |-> TMul(TMul(TNeg(ImagUnit), h0[i]), TCos(iota))]

----------------------------------------------------------------------------
(* Bounds of the model.                                                    *)

(* Component masses are 1..MaxMass solar masses.                           *)
MaxMass == 2

(* Frequency grids are the last 1..MaxLen samples of Frequencies (Hz).     *)
MaxLen == 2

Frequencies == <<20, 100, 1000, 8192>>

FrequencyGrids ==
  {[i \in 1..n |-> Int2V(Frequencies[Len(Frequencies) - n + i])] :
     n \in 1..MaxLen}

MassPairs == {<<a, b>> \in (1..MaxMass) \X (1..MaxMass) : a >= b}

SpinPairs == {<<Zero, Zero>>, <<Lit(1, 2), Lit(-1, 4)>>}

LambdaPairs ==
  {<<Zero, Zero>>, <<One, Lit(1001, 1000)>>, <<Int2V(400), Int2V(300)>>}

Inclinations == {Zero, One}

Approximants == {"IMRPhenomD", "IMRPhenomXAS"}

(* Values the baseline generator returns at a sample.                      *)
BBHValues == {One, Cx(QInt(3), QInt(4))}

(* Values of kappa _get_merger_frequency is called with directly.          *)
KappaProbes == {None, Zero, Int2V(7), Int2V(2000)}

Unset == [k |-> "unset"]

ParamVectors ==
  {<<Mchirp_of(Int2V(m[1]), Int2V(m[2])),
     Num(Q(m[1] * m[2], (m[1] + m[2]) * (m[1] + m[2]))),
     chi[1], chi[2], lam[1], lam[2], Int2V(40), Zero, Zero, iota>> :
     m \in MassPairs, chi \in SpinPairs, lam \in LambdaPairs,
     iota \in Inclinations}

(* What the baseline generator may return on a grid of n samples: one     *)
(* value at every sample, the last z samples zero.                         *)
BBHStrains(n) ==
  {[i \in 1..n |-> IF i > n - z THEN Zero ELSE v] :
     v \in BBHValues, z \in 0..1}

----------------------------------------------------------------------------
(* The state: the arguments of one call of gen_NRTidalv2_hphc, the locals  *)
(* of the functions it runs through, and one later direct call of          *)
(* _get_merger_frequency on the same intrinsic parameters.                 *)

VARIABLES pc, f, params, IMRphenom, loc, probe

vars == <<pc, f, params, IMRphenom, loc, probe>>

LocalNames ==
  {"iota", "gen_params", "theta_intrinsic", "theta_extrinsic", "bbh_params",
   "h0_bbh", "M_s", "kappa", "A_bbh", "psi_bbh", "amp", "A_T", "mf", "A_P",
   "psi_T", "psi_SS", "log_quadparam", "h0", "hp", "hc"}

Init ==
  /\ pc = "hphc"
  /\ f \in FrequencyGrids
  /\ params \in ParamVectors
  /\ IMRphenom \in Approximants
  /\ loc = [n \in LocalNames \cup {"bbh_calls", "kappa_calls"} |->
              IF n \in LocalNames THEN Unset ELSE 0]
  /\ probe = Unset

inputs == <<f, params, IMRphenom>>

(* Lines 416-418: read the inclination, call gen_NRTidalv2 on the rest.    *)
hphc_enter ==
  /\ pc = "hphc"
  /\ loc' = [loc EXCEPT !.iota = hphc_iota(params),
                        !.gen_params = hphc_gen_params(params)]
  /\ pc' = "gen"
  /\ UNCHANGED <<inputs, probe>>

(* Lines 371-377.                                                          *)
gen_enter ==
  /\ pc = "gen"
  /\ loc' = [loc EXCEPT
               !.theta_intrinsic = gen_theta_intrinsic(loc.gen_params),
               !.theta_extrinsic = gen_theta_extrinsic(loc.gen_params),
               !.bbh_params = gen_bbh_params(loc.gen_params)]
  /\ pc' = "select"
  /\ UNCHANGED <<inputs, probe>>

(* Lines 384-386: the approximant is not recognized.                       *)
gen_unrecognized ==
  /\ pc = "select"
  /\ ~Recognized(IMRphenom)
  /\ loc' = [loc EXCEPT !.h0 = gen_unrecognized_return(f)]
  /\ pc' = "project"
  /\ UNCHANGED <<inputs, probe>>

(* Lines 380-383 and 389: the baseline generator runs and returns a        *)
(* strain of the length of the grid.                                       *)
gen_bbh ==
  /\ pc = "select"
  /\ Recognized(IMRphenom)
  /\ \E h \in BBHStrains(Len(f)) :
       loc' = [loc EXCEPT !.h0_bbh = h, !.bbh_calls = @ + 1]
  /\ pc' = "kappa"
  /\ UNCHANGED <<inputs, probe>>

(* Lines 317-321.                                                          *)
step_kappa ==
  /\ pc = "kappa"
  /\ loc' = [loc EXCEPT !.M_s = Value(gen_M_s(loc.theta_intrinsic)),
                        !.kappa = Value(get_kappa(loc.theta_intrinsic)),
                        !.kappa_calls = @ + 1]
  /\ pc' = "decompose"
  /\ UNCHANGED <<inputs, probe>>

(* Lines 324-325.                                                          *)
step_decompose ==
  /\ pc = "decompose"
  /\ \E A_bbh \in {Values(gen_A_bbh(loc.h0_bbh))} :
       loc' = [loc EXCEPT
                 !.A_bbh = A_bbh,
                 !.psi_bbh = Values(gen_psi_bbh(loc.h0_bbh, A_bbh))]
  /\ pc' = "amplitude"
  /\ UNCHANGED <<inputs, probe>>

(* Line 328.                                                               *)
step_amplitude ==
  /\ pc = "amplitude"
  /\ \E amp \in {[i \in 1..Len(f) |->
                      Values(gen_amplitude(f, loc.theta_intrinsic,
                                           loc.theta_extrinsic, loc.kappa)[i])]} :
       loc' = [loc EXCEPT !.amp = amp,
                          !.A_T = [i \in 1..Len(f) |-> amp[i].A_T]]
  /\ pc' = "taper"
  /\ UNCHANGED <<inputs, probe>>

(* Line 330.                                                               *)
step_taper ==
  /\ pc = "taper"
  /\ \E r \in {gen_A_P(f, loc.theta_intrinsic, loc.kappa)} :
       loc' = [loc EXCEPT
                 !.mf = Values(r.mf), !.A_P = Values(r.A_P),
                 !.kappa_calls = @ + (IF r.mf.calls_get_kappa.on THEN 1 ELSE 0)]
  /\ pc' = "phase"
  /\ UNCHANGED <<inputs, probe>>

(* Line 333.                                                               *)
step_phase ==
  /\ pc = "phase"
  /\ loc' = [loc EXCEPT
               !.psi_T = Values(get_tidal_phase(gen_scaled_f(f, loc.M_s),
                                                loc.theta_intrinsic,
                                                loc.kappa))]
  /\ pc' = "spin"
  /\ UNCHANGED <<inputs, probe>>

(* Line 335, with the quadrupole fits it evaluates (lines 175-176).        *)
step_spin ==
  /\ pc = "spin"
  /\ loc' = [loc EXCEPT
               !.psi_SS =
                  Values(get_spin_phase_correction(gen_scaled_f(f, loc.M_s),
                                                   loc.theta_intrinsic)),
               !.log_quadparam =
                  <<_compute_quadparam_octparam(
                      loc.theta_intrinsic.lambda1).log_quadparam,
                    _compute_quadparam_octparam(
                      loc.theta_intrinsic.lambda2).log_quadparam>>]
  /\ pc' = "combine"
  /\ UNCHANGED <<inputs, probe>>

(* Lines 337, 344 and 392.                                                 *)
step_combine ==
  /\ pc = "combine"
  /\ loc' = [loc EXCEPT
               !.h0 = [i \in 1..Len(f) |->
                         Value(gen_h0_at(loc.A_P[i], loc.h0_bbh[i],
                                         loc.A_T[i], loc.psi_bbh[i],
                                         loc.psi_T[i], loc.psi_SS[i]))]]
  /\ pc' = "project"
  /\ UNCHANGED <<inputs, probe>>

(* Lines 420-423.                                                          *)
hphc_project ==
  /\ pc = "project"
  /\ loc' = [loc EXCEPT !.hp = Values(hphc_hp(loc.h0, loc.iota)),
                        !.hc = Values(hphc_hc(loc.h0, loc.iota))]
  /\ pc' = "done"
  /\ UNCHANGED <<inputs, probe>>

(* A direct call _get_merger_frequency(theta_intrinsic, kappa) or, for     *)
(* kappa = None, _get_merger_frequency(theta_intrinsic).                   *)
call_merger_frequency ==
  /\ pc = "done"
  /\ \E k \in KappaProbes :
       probe' = [kappa_arg |-> k,
                 mf |-> Values(_get_merger_frequency(loc.theta_intrinsic,
                                                     k))]
  /\ pc' = "probed"
  /\ UNCHANGED <<inputs, loc>>

Next ==
  \/ hphc_enter
  \/ gen_enter
  \/ gen_unrecognized
  \/ gen_bbh
  \/ step_kappa
  \/ step_decompose
  \/ step_amplitude
  \/ step_taper
  \/ step_phase
  \/ step_spin
  \/ step_combine
  \/ hphc_project
  \/ call_merger_frequency

Spec == Init /\ [][Next]_vars

----------------------------------------------------------------------------
(* Properties of the program.                                              *)

Returned == pc \in {"project", "done", "probed"}

Projected == pc \in {"done", "probed"}

Combined == Returned /\ Recognized(IMRphenom)

(* C1: with an approximant name other than "IMRPhenomD", gen_NRTidalv2     *)
(* returns an array of exactly the length of the frequency grid whose      *)
(* every entry is zero, and the baseline generator is never called.        *)
C1_UnrecognizedGivesZeros ==
  (Returned /\ ~Recognized(IMRphenom)) =>
     /\ DOMAIN loc.h0 = DOMAIN f
     /\ \A i \in DOMAIN f : loc.h0[i] = Zero
     /\ loc.bbh_calls = 0
     /\ loc.h0_bbh = Unset

C1_Witness ==
  /\ pc = "project"
  /\ IMRphenom = "IMRPhenomXAS"
  /\ Len(f) = MaxLen
  /\ Len(loc.h0) = MaxLen

(* C2: in the combiner the taper factor A_P is 1 at every frequency        *)
(* sample, whatever the intrinsic parameters, kappa and merger frequency   *)
(* are, samples above 1.2 * f_merger included.                             *)
C2_TaperFactorIsOne ==
  (pc \in {"phase", "spin", "combine"} \/ Combined) =>
     /\ DOMAIN loc.A_P = DOMAIN f
     /\ \A i \in DOMAIN f : loc.A_P[i] = One

(* Whether sample fi lies above 1.2 * f_merger, decided from lower bounds  *)
(* of the constants (PI > 3.14, gt > 4.9e-6 s) and from Q_0 <= a_0, which  *)
(* holds when m1 >= m2:  1.2 * a_0 * num/den < fi * 2 * 3.14 * M * 4.9e-6. *)
AboveTaperEnd(fi, theta, mf) ==
  /\ IsExactReal(mf.ratio)
  /\ \E d \in {Value(TSub(TMul(TMul(Lit(12, 10), Lit(3586, 10000)),
                               mf.ratio),
                          TMul(TMul(TMul(fi, Lit(628, 100)),
                                    TAdd(theta.m1, theta.m2)),
                               Lit(49, 10000000))))} :
        IsExactReal(d) /\ BigSign(ToBig(d)) < 0

SamplesAboveTaperEnd ==
  {i \in DOMAIN f : AboveTaperEnd(f[i], loc.theta_intrinsic, loc.mf)}

C2_Witness ==
  /\ pc = "combine"
  /\ loc.kappa # Zero
  /\ \E above \in {SamplesAboveTaperEnd} :
        /\ \E i \in above : loc.A_P[i] = One
        /\ \E i \in DOMAIN f \ above : loc.A_P[i] = One

(* C3: the spin-squared phase the combiner adds is zero at every sample,   *)
(* so the strain is A_P * (h0_bbh + A_T * exp(-i psi_bbh)) * exp(-i psi_T) *)
(* for every spin pair and every pair of tidal deformabilities.            *)
C3_NoSpinSquaredPhase ==
  Combined =>
     \A i \in DOMAIN f :
        /\ loc.psi_SS[i] = Zero
        /\ loc.h0[i] =
             Value(TMul(TMul(loc.A_P[i],
                             TAdd(loc.h0_bbh[i],
                                  TMul(loc.A_T[i],
                                       TExp(TMul(ImagUnit,
                                                 TNeg(loc.psi_bbh[i])))))),
                        TExp(TMul(ImagUnit, TNeg(loc.psi_T[i])))))

C3_Witness ==
  /\ pc = "project"
  /\ Recognized(IMRphenom)
  /\ loc.theta_intrinsic.chi1 # Zero
  /\ loc.theta_intrinsic.lambda1 # Zero
  /\ \E i \in DOMAIN f :
        /\ Value(spin_phase_no_override(gen_scaled_f(f, loc.M_s),
                                        loc.theta_intrinsic)[i]) # Zero
        /\ loc.psi_SS[i] = Zero
        /\ ~IsBad(loc.h0[i])

(* C10 as stated: at inclination 0 the projector gives hc = 0 and hp = h0  *)
(* at every sample.                                                        *)
C10_FaceOnCrossIsZero ==
  (Projected /\ loc.iota = Zero) =>
     \A i \in DOMAIN f : loc.hc[i] = Zero /\ loc.hp[i] = loc.h0[i]

(* C10, amended: at inclination 0 the projector gives hp = h0 and          *)
(* hc = -i * h0 at every sample, so hc has the magnitude of h0 and is zero *)
(* only where h0 is.                                                       *)
C10_FaceOnCrossIsRotatedStrain ==
  (Projected /\ loc.iota = Zero) =>
     \A i \in DOMAIN f :
        /\ loc.hp[i] = loc.h0[i]
        /\ loc.hc[i] = Value(TMul(TNeg(ImagUnit), loc.h0[i]))
        /\ (loc.h0[i] = Cx(QInt(3), QInt(4)) => loc.hc[i] = Cx(QInt(4), QInt(-3)))
        /\ (loc.hc[i] = Zero <=> loc.h0[i] = Zero)

C10_Witness ==
  /\ pc = "done"
  /\ loc.iota = Zero
  /\ \E i \in DOMAIN f :
        /\ loc.h0[i] = Cx(QInt(3), QInt(4))
        /\ loc.hp[i] = Cx(QInt(3), QInt(4))
        /\ loc.hc[i] = Cx(QInt(4), QInt(-3))

(* C4: with both tidal deformabilities 0, kappa is 0, the tidal amplitude  *)
(* and the tidal phase are exactly 0 at every frequency, and the combiner  *)
(* returns the baseline strain h0_bbh unchanged.                           *)
C4_BBHLimitRecovered ==
  (Combined /\ loc.theta_intrinsic.lambda1 = Zero
            /\ loc.theta_intrinsic.lambda2 = Zero) =>
     /\ loc.kappa = Zero
     /\ \A i \in DOMAIN f :
           /\ loc.A_T[i] = Zero
           /\ loc.psi_T[i] = Zero
           /\ loc.h0[i] = loc.h0_bbh[i]

(* The part of C4 that holds: kappa, the tidal amplitude and the tidal     *)
(* phase are 0, and the strain is returned unchanged at the samples where  *)
(* it is not zero.                                                         *)
C4_BBHLimitAwayFromZeros ==
  (Combined /\ loc.theta_intrinsic.lambda1 = Zero
            /\ loc.theta_intrinsic.lambda2 = Zero) =>
     /\ loc.kappa = Zero
     /\ \A i \in DOMAIN f :
           /\ loc.A_T[i] = Zero
           /\ loc.psi_T[i] = Zero
           /\ (loc.h0_bbh[i] # Zero => loc.h0[i] = loc.h0_bbh[i])
           /\ (loc.h0_bbh[i] = Zero => loc.h0[i] = NaN)

(* C6: the two branches of the quadrupole fit agree at Lambda = 1: the     *)
(* polynomial branch at 1 and the universal-relation branch at 1 + eps     *)
(* give values of log_quadparam that differ by at most 100 * eps           *)
(* (eps = 1/1000).                                                         *)
C6_BranchesAgreeAtOne ==
  (pc \in {"combine", "project", "done", "probed"} /\ Recognized(IMRphenom)
     /\ loc.theta_intrinsic.lambda1 = One
     /\ loc.theta_intrinsic.lambda2 = Lit(1001, 1000)) =>
     /\ IsExactReal(loc.log_quadparam[1])
     /\ IsExactReal(loc.log_quadparam[2])
     /\ BigLess(BigAbs(BigSub(ToBig(loc.log_quadparam[1]),
                              ToBig(loc.log_quadparam[2]))),
                ToBig(Lit(1, 10)))

(* C8: in get_tidal_amplitude M_sec is the total mass in seconds, the      *)
(* constant gt applied exactly once to m1 + m2, and the Pade variable is   *)
(* x = (PI * M_sec * f) ** (2/3) at the physical frequency f.              *)
C8_TotalMassScaledOnce ==
  (pc \in {"taper", "phase", "spin", "combine"} \/ Combined) =>
     \A i \in DOMAIN f :
        /\ loc.amp[i].M_sec =
             Value(TMul(TAdd(loc.theta_intrinsic.m1,
                             loc.theta_intrinsic.m2), gt))
        /\ loc.amp[i].x =
             Value(TPow(TMul(TMul(PI, loc.amp[i].M_sec), f[i]), <<2, 3>>))

(* Comparison of real values.  Exact values of one unit compare by value; *)
(* c * a against c * b and a / c against b / c, c > 0, compare as a        *)
(* against b, where c stands for c * 1.                                    *)
TEq(a, b) ==
  \/ a = b
  \/ /\ IsExactReal(a) /\ IsExactReal(b) /\ SameUnit(a, b)
     /\ BigEq(ToBig(a), ToBig(b))

RECURSIVE IsPositive(_)
IsPositive(a) ==
  IF IsExactReal(a) THEN BigSign(ToBig(a)) > 0
  ELSE IF a.k # "app" THEN FALSE
  ELSE IF a.op = "sqrt" THEN IsPositive(a.args[1])
  ELSE IF a.op \in {"mul", "div"}
       THEN IsPositive(a.args[1]) /\ IsPositive(a.args[2])
  ELSE FALSE

CoFactor(a, c) ==
  IF a = c THEN One
  ELSE IF a.k = "app" /\ a.op = "mul" /\ a.args[1] = c THEN a.args[2]
  ELSE None

RECURSIVE TLess(_, _)
TLess(a, b) ==
  IF IsExactReal(a) /\ IsExactReal(b)
    THEN SameUnit(a, b) /\ BigLess(ToBig(a), ToBig(b))
  ELSE IF a.k = "app" /\ b.k = "app" /\ a.op = "div" /\ b.op = "div"
    THEN a.args[2] = b.args[2] /\ IsPositive(a.args[2])
         /\ TLess(a.args[1], b.args[1])
  ELSE IF a.k = "app" /\ a.op = "mul" /\ CoFactor(b, a.args[1]) # None
    THEN IsPositive(a.args[1]) /\ TLess(a.args[2], CoFactor(b, a.args[1]))
  ELSE IF b.k = "app" /\ b.op = "mul" /\ CoFactor(a, b.args[1]) # None
    THEN IsPositive(b.args[1]) /\ TLess(CoFactor(a, b.args[1]), b.args[2])
  ELSE FALSE

Swapped(theta) ==
  [m1 |-> theta.m2, m2 |-> theta.m1, chi1 |-> theta.chi2,
   chi2 |-> theta.chi1, lambda1 |-> theta.lambda2, lambda2 |-> theta.lambda1]

(* C5: exchanging the labels of the two components leaves get_kappa and,   *)
(* for the same grid, extrinsic parameters and baseline strain, the strain *)
(* returned by the combiner unchanged.                                     *)
C5_ExchangeSymmetry ==
  (pc = "project" /\ Recognized(IMRphenom)) =>
     /\ TEq(Value(get_kappa(Swapped(loc.theta_intrinsic))), loc.kappa)
     /\ Values(_gen_NRTidalv2(f, Swapped(loc.theta_intrinsic),
                              loc.theta_extrinsic, loc.h0_bbh)) = loc.h0

C5_Witness ==
  /\ pc = "project"
  /\ Recognized(IMRphenom)
  /\ loc.theta_intrinsic.m1 # loc.theta_intrinsic.m2
  /\ loc.theta_intrinsic.lambda1 # loc.theta_intrinsic.lambda2
  /\ loc.theta_intrinsic.chi1 # loc.theta_intrinsic.chi2
  /\ loc.kappa # Zero
  /\ Value(_get_merger_frequency(Swapped(loc.theta_intrinsic), None).Q_0)
       # loc.mf.Q_0
  /\ \E i \in DOMAIN f : ~IsBad(loc.h0[i]) /\ loc.h0[i] # loc.h0_bbh[i]

(* C7: the combiner computes kappa once, before its consumers run, and     *)
(* the tidal amplitude, the taper with the merger frequency under it and   *)
(* the tidal phase all use that value; _get_merger_frequency called        *)
(* without kappa returns what it returns for kappa = get_kappa(theta).     *)
C7_OneKappa ==
  /\ (pc \in {"decompose", "amplitude", "taper", "phase", "spin", "combine"}
        \/ Combined) =>
        /\ loc.kappa_calls = 1
        /\ loc.kappa = Value(get_kappa(loc.theta_intrinsic))
  /\ (pc \in {"taper", "phase", "spin", "combine"} \/ Combined) =>
        \A i \in DOMAIN f : loc.amp[i].kappa = loc.kappa
  /\ (pc \in {"phase", "spin", "combine"} \/ Combined) =>
        /\ loc.mf.kappa = loc.kappa
        /\ ~loc.mf.calls_get_kappa.on
  /\ (pc \in {"spin", "combine"} \/ Combined) =>
        loc.psi_T = Values(get_tidal_phase(gen_scaled_f(f, loc.M_s),
                                           loc.theta_intrinsic, loc.kappa))
  /\ (pc = "probed" /\ probe.kappa_arg = None) =>
        /\ \E given \in {Values(_get_merger_frequency(
                                    loc.theta_intrinsic,
                                    get_kappa(loc.theta_intrinsic)))} :
              /\ probe.mf.kappa = given.kappa
              /\ probe.mf.fHz_merger = given.fHz_merger
        /\ Recognized(IMRphenom) => probe.mf.fHz_merger = loc.mf.fHz_merger

C7_Witness ==
  /\ pc = "probed"
  /\ Recognized(IMRphenom)
  /\ probe.kappa_arg = None
  /\ probe.mf.calls_get_kappa.on
  /\ loc.kappa # Zero
  /\ loc.kappa_calls = 1
  /\ probe.mf.fHz_merger = loc.mf.fHz_merger

(* C9: for fixed masses the dimensionless merger frequency Momega_merger,  *)
(* and with it fHz_merger, is strictly smaller at the larger of two kappas *)
(* 0 <= ka < kb.                                                           *)
C9_MergerFrequencyDecreases ==
  (pc = "probed" /\ probe.kappa_arg # None) =>
     /\ \A k \in KappaProbes \ {None} :
           TLess(k, probe.kappa_arg) =>
              \A mfk \in {Values(_get_merger_frequency(loc.theta_intrinsic,
                                                        k))} :
                 /\ TLess(probe.mf.Momega_merger, mfk.Momega_merger)
                 /\ TLess(probe.mf.fHz_merger, mfk.fHz_merger)
     /\ (Recognized(IMRphenom) /\ TLess(loc.kappa, probe.kappa_arg)) =>
           /\ TLess(probe.mf.Momega_merger, loc.mf.Momega_merger)
           /\ TLess(probe.mf.fHz_merger, loc.mf.fHz_merger)
     /\ (Recognized(IMRphenom) /\ TLess(probe.kappa_arg, loc.kappa)) =>
           /\ TLess(loc.mf.Momega_merger, probe.mf.Momega_merger)
           /\ TLess(loc.mf.fHz_merger, probe.mf.fHz_merger)

C9_Witness ==
  /\ pc = "probed"
  /\ Recognized(IMRphenom)
  /\ probe.kappa_arg # None
  /\ loc.theta_intrinsic.m1 # loc.theta_intrinsic.m2
  /\ TLess(Zero, loc.kappa)
  /\ TLess(loc.kappa, probe.kappa_arg)
  /\ TLess(probe.mf.Momega_merger, loc.mf.Momega_merger)
  /\ TLess(probe.mf.fHz_merger, loc.mf.fHz_merger)

====
